---- MODULE Spec2Model ----
(***************************************************************************)
(* A model of the state machine library of src/src/lib.rs: the builder     *)
(* (StateMachineBuilder::new / add_event / build) and the machine          *)
(* (StateMachine::event / reset / current_state) called from several       *)
(* threads, with the RwLock that protects the current-state cell.          *)
(***************************************************************************)
EXTENDS Integers, FiniteSets, Sequences, TLC

VARIABLES
    phase,          \* "builder" until build() has run, then "machine"
    name,           \* StateMachine.name
    state,          \* the value inside StateMachine.state (the RwLock's cell)
    initial_state,  \* StateMachine.initial_state
    events,         \* StateMachine.events: State -> (Event -> Transition)
    adds,           \* number of add_event calls made on the builder
    added,          \* the add_event calls made on the builder, in order
    writer,         \* the thread holding the write lock, or None
    readers,        \* the threads holding a read lock
    poisoned,       \* the RwLock's poison flag
    pc,             \* where each thread is in its current call
    ev,             \* the `event` argument of each thread's call to event()
    tr,             \* the `transition` each thread's event() has resolved
    from,           \* the state each thread's event() looked the transition up in
    act,            \* what the action each thread's event() called handed back
    nested,         \* the call on its own machine each thread's action is inside, or "-"
    returned,       \* the return the latest step made: the thread and the value handed back
    calls,          \* number of calls issued on the machine so far
    resolved,       \* per (state, event): dispatches that resolved its transition
    invoked,        \* per (state, event): invocations of its transition's action
    seen,           \* per thread: the values the cell held since its call began
    seq_state,      \* the cell of a machine that runs the calls one at a time
    seq_found       \* whether that machine resolved a transition in its latest event()

vars == <<phase, name, state, initial_state, events, adds, added, writer, readers,
          poisoned, pc, ev, tr, from, act, nested, returned, calls, resolved, invoked,
          seen, seq_state, seq_found>>

machine_vars == <<name, initial_state, events>>
lock_vars == <<writer, readers, poisoned>>
call_vars == <<pc, ev, tr, from, act, nested>>
ghost_vars == <<resolved, invoked, seen, seq_state, seq_found>>

(***************************************************************************)
(* Bounds and the small sets the inputs are drawn from.                    *)
(***************************************************************************)
MaxAdds == 2
MaxCalls == 3

States == {"initial", "second"}
InitialStates == {"initial"}
Events == {"e1", "e2"}
Names == {"test"}
Threads == {"t1", "t2"}

None == "None"
ActionOpts == {None, "Some"}
Outcomes == {"Ok", "Err"}

(***************************************************************************)
(* HashMap: a function on the set of its keys.                             *)
(***************************************************************************)
EmptyMap == [k \in {} |-> None]

MapHas(m, k) == k \in DOMAIN m

MapInsert(m, k, v) == [x \in (DOMAIN m) \cup {k} |-> IF x = k THEN v ELSE m[x]]

Transition(trigger, new_state, action) ==
    [trigger |-> trigger, new_state |-> new_state, action |-> action]

NoTr == Transition("-", "-", None)

\* Result<()> / State values handed back to a caller.
Res(kind, e, s) == [kind |-> kind, event |-> e, state |-> s]
NoRes == Res("none", "-", "-")
OkRes == Res("Ok", "-", "-")
UnitRes == Res("Unit", "-", "-")
LockErr == Res("lock error", "-", "-")
ActionErr == Res("action failed", "-", "-")
\* A failed lookup reported as success.
NoTransitionErr_Swallowed(e, s) == OkRes
NoTransitionErr(e, s) == Res("no transition found", e, s)
StateRes(s) == Res("State", "-", s)

\* A return: the thread that returned and the value it was handed.
Ret(t, value) == [thread |-> t, value |-> value]
NoRet == Ret("-", NoRes)

Pairs == States \X Events
ZeroCount == [p \in Pairs |-> 0]

(***************************************************************************)
(* StateMachineBuilder                                                     *)
(***************************************************************************)
\* StateMachineBuilder::new(name, initial_state)
BuilderNew(n, s) ==
    /\ phase = "builder"
    /\ name = n
    /\ state = s
    /\ initial_state = s
    /\ events = EmptyMap
    /\ adds = 0
    /\ added = <<>>
    /\ writer = None
    /\ readers = {}
    /\ poisoned = FALSE
    /\ pc = [t \in Threads |-> "idle"]
    /\ ev = [t \in Threads |-> "-"]
    /\ tr = [t \in Threads |-> NoTr]
    /\ from = [t \in Threads |-> "-"]
    /\ act = [t \in Threads |-> NoRes]
    /\ nested = [t \in Threads |-> "-"]
    /\ returned = NoRet
    /\ calls = 0
    /\ resolved = ZeroCount
    /\ invoked = ZeroCount
    /\ seen = [t \in Threads |-> {}]
    /\ seq_state = s
    /\ seq_found = FALSE

Init == \E n \in Names, s \in InitialStates : BuilderNew(n, s)

\* An add_event that keeps the entry a pair already has.
add_event_KeepsFirst(evs, old_state, event, new_state, action) ==
    IF MapHas(evs, old_state) /\ MapHas(evs[old_state], event)
    THEN evs
    ELSE LET state_events == IF MapHas(evs, old_state) THEN evs[old_state] ELSE EmptyMap
             t == Transition(event, new_state, action)
         IN  MapInsert(evs, old_state, MapInsert(state_events, event, t))

\* The table add_event leaves: entry(old_state).or_insert_with(HashMap::new),
\* then insert(event, t).
add_event(evs, old_state, event, new_state, action) ==
    LET state_events == IF MapHas(evs, old_state) THEN evs[old_state] ELSE EmptyMap
        t == Transition(event, new_state, action)
    IN  MapInsert(evs, old_state, MapInsert(state_events, event, t))

AddEvent(old_state, event, new_state, action) ==
    /\ phase = "builder"
    /\ adds < MaxAdds
    /\ events' = add_event(events, old_state, event, new_state, action)
    /\ adds' = adds + 1
    /\ added' = Append(added, <<old_state, event, new_state, action>>)
    /\ returned' = NoRet
    /\ UNCHANGED <<phase, name, state, initial_state, lock_vars, call_vars, calls,
                   ghost_vars>>

\* A build() that takes a transition out of the initial state on its way.
Build_EntersByTransition ==
    /\ phase = "builder"
    /\ phase' = "machine"
    /\ adds' = 0
    /\ added' = <<>>
    /\ state' = IF MapHas(events, initial_state)
                THEN events[initial_state]
                           [CHOOSE e \in Events : MapHas(events[initial_state], e)].new_state
                ELSE state
    /\ returned' = NoRet
    /\ UNCHANGED <<machine_vars, lock_vars, call_vars, calls, ghost_vars>>

\* build(self): the builder's fields move into the machine; the builder is gone.
Build ==
    /\ phase = "builder"
    /\ phase' = "machine"
    /\ adds' = 0
    /\ added' = <<>>
    /\ returned' = NoRet
    /\ UNCHANGED <<machine_vars, state, lock_vars, call_vars, calls, ghost_vars>>

(***************************************************************************)
(* RwLock                                                                  *)
(***************************************************************************)
\* A write() that does not wait for a writer.
CanWrite_IgnoresWriter == readers = {}

\* write() can take the lock: nobody holds it.
CanWrite == writer = None /\ readers = {}

\* A read() that does not wait for a writer.
CanRead_IgnoresWriter == TRUE

\* read() can take the lock: no writer holds it.
CanRead == writer = None

(***************************************************************************)
(* StateMachine                                                            *)
(***************************************************************************)
\* self.events.get(&state) and then state_events.get(event) both give Some.
HasTransition(evs, s, e) == MapHas(evs, s) /\ MapHas(evs[s], e)

\* A thread may issue a call: the machine is built and the thread is not in a call.
CanCall(t) ==
    /\ phase = "machine"
    /\ pc[t] = "idle"
    /\ calls < MaxCalls

\* The thread's locals once its call to event() is over.
EndEvent(t) ==
    /\ ev' = [ev EXCEPT ![t] = "-"]
    /\ tr' = [tr EXCEPT ![t] = NoTr]
    /\ from' = [from EXCEPT ![t] = "-"]
    /\ act' = [act EXCEPT ![t] = NoRes]
    /\ nested' = [nested EXCEPT ![t] = "-"]

\* A caller enters event(event) and waits for the write lock.
EventCall(t, e) ==
    /\ CanCall(t)
    /\ pc' = [pc EXCEPT ![t] = "ev_write"]
    /\ ev' = [ev EXCEPT ![t] = e]
    /\ calls' = calls + 1
    /\ returned' = NoRet
    /\ UNCHANGED <<phase, machine_vars, state, adds, added, lock_vars, tr, from, act, nested,
                   ghost_vars>>

\* The cell a one-call-at-a-time machine holds after event(e) from s.
SeqEvent(evs, s, e) == IF HasTransition(evs, s, e) THEN evs[s][e].new_state ELSE s

\* A write() that recovers the guard of a poisoned lock and goes on.
EventAcquire_IgnoresPoison(t) ==
    /\ pc[t] = "ev_write"
    /\ CanWrite
    /\ pc' = [pc EXCEPT ![t] = "ev_lookup"]
    /\ writer' = t
    /\ seq_found' = HasTransition(events, seq_state, ev[t])
    /\ seq_state' = SeqEvent(events, seq_state, ev[t])
    /\ returned' = NoRet
    /\ UNCHANGED <<phase, machine_vars, state, adds, added, readers, poisoned, ev, tr,
                   from, act, nested, calls, resolved, invoked, seen>>

\* self.state.write().map_err(..)?: takes the lock; a poisoned lock gives
\* Err("lock error") and the guard is dropped at once.
EventAcquire(t) ==
    /\ pc[t] = "ev_write"
    /\ CanWrite
    /\ IF poisoned
       THEN /\ pc' = [pc EXCEPT ![t] = "idle"]
            /\ EndEvent(t)
            /\ returned' = Ret(t, LockErr)
            /\ UNCHANGED <<writer, seq_state, seq_found>>
       ELSE /\ pc' = [pc EXCEPT ![t] = "ev_lookup"]
            /\ writer' = t
            /\ seq_found' = HasTransition(events, seq_state, ev[t])
            /\ seq_state' = SeqEvent(events, seq_state, ev[t])
            /\ returned' = NoRet
            /\ UNCHANGED <<ev, tr, from, act, nested>>
    /\ UNCHANGED <<phase, machine_vars, state, adds, added, readers, poisoned, calls,
                   resolved, invoked, seen>>

\* A lookup that falls back on another entry of the state when the event has
\* none.
EventLookup_FallsBack(t) ==
    /\ pc[t] = "ev_lookup"
    /\ IF HasTransition(events, state, ev[t])
       THEN /\ tr' = [tr EXCEPT ![t] = events[state][ev[t]]]
            /\ from' = [from EXCEPT ![t] = state]
            /\ resolved' = [resolved EXCEPT ![<<state, ev[t]>>] = @ + 1]
            /\ pc' = [pc EXCEPT ![t] = "ev_commit"]
       ELSE IF MapHas(events, state)
       THEN /\ tr' = [tr EXCEPT ![t] =
                        events[state][CHOOSE e \in Events : MapHas(events[state], e)]]
            /\ from' = [from EXCEPT ![t] = state]
            /\ resolved' = [resolved EXCEPT ![<<state, ev[t]>>] = @ + 1]
            /\ pc' = [pc EXCEPT ![t] = "ev_commit"]
       ELSE /\ pc' = [pc EXCEPT ![t] = "ev_return"]
            /\ UNCHANGED <<tr, from, resolved>>
    /\ returned' = NoRet
    /\ UNCHANGED <<phase, machine_vars, state, adds, added, lock_vars, ev, act, nested,
                   calls, invoked, seen, seq_state, seq_found>>

\* self.events.get(&state), then state_events.get(event): the transition
\* found, or the Err naming the event and the state on its way out.
EventLookup(t) ==
    /\ pc[t] = "ev_lookup"
    /\ IF HasTransition(events, state, ev[t])
       THEN /\ tr' = [tr EXCEPT ![t] = events[state][ev[t]]]
            /\ from' = [from EXCEPT ![t] = state]
            /\ resolved' = [resolved EXCEPT ![<<state, ev[t]>>] = @ + 1]
            /\ pc' = [pc EXCEPT ![t] = "ev_commit"]
       ELSE /\ pc' = [pc EXCEPT ![t] = "ev_return"]
            /\ UNCHANGED <<tr, from, resolved>>
    /\ returned' = NoRet
    /\ UNCHANGED <<phase, machine_vars, state, adds, added, lock_vars, ev, act, nested, calls,
                   invoked, seen, seq_state, seq_found>>

\* Every thread inside current_state() records the value the cell now holds.
Observe(s) == [u \in Threads |-> IF pc[u] \in {"cs_read", "cs_clone"}
                                 THEN seen[u] \cup {s} ELSE seen[u]]

\* let new_state = transition.new_state.clone()
new_state_of(transition) == transition.new_state

\* An action that is taken out of its transition by its first call.
HasAction_OneShot(transition) ==
    /\ transition.action # None
    /\ \A p \in Pairs :
          (MapHas(events, p[1]) /\ MapHas(events[p[1]], p[2])
             /\ events[p[1]][p[2]] = transition) => invoked[p] = 0

\* if let Some(ref action) = transition.action
HasAction(transition) == transition.action # None

\* A transition with an action whose store is left out before the call.
EventCommit_StoreSkipped(t) ==
    /\ pc[t] = "ev_commit"
    /\ state' = IF HasAction(tr[t]) THEN state ELSE new_state_of(tr[t])
    /\ seen' = Observe(state')
    /\ IF HasAction(tr[t])
       THEN /\ invoked' = [invoked EXCEPT ![<<from[t], ev[t]>>] = @ + 1]
            /\ pc' = [pc EXCEPT ![t] = "ev_action"]
       ELSE /\ pc' = [pc EXCEPT ![t] = "ev_return"]
            /\ UNCHANGED invoked
    /\ returned' = NoRet
    /\ UNCHANGED <<phase, machine_vars, adds, added, lock_vars, ev, tr, from, act, nested, calls,
                   resolved, seq_state, seq_found>>

\* *state = new_state; then the action is called if there is one.
EventCommit(t) ==
    /\ pc[t] = "ev_commit"
    /\ state' = new_state_of(tr[t])
    /\ seen' = Observe(state')
    /\ IF HasAction(tr[t])
       THEN /\ invoked' = [invoked EXCEPT ![<<from[t], ev[t]>>] = @ + 1]
            /\ pc' = [pc EXCEPT ![t] = "ev_action"]
       ELSE /\ pc' = [pc EXCEPT ![t] = "ev_return"]
            /\ UNCHANGED invoked
    /\ returned' = NoRet
    /\ UNCHANGED <<phase, machine_vars, adds, added, lock_vars, ev, tr, from, act, nested, calls,
                   resolved, seq_state, seq_found>>

\* What the action hands back: Ok(()) or an Err of its own.
ActionValue(outcome) == IF outcome = "Ok" THEN OkRes ELSE ActionErr

\* A failed action that puts the old state back.
ActionReturn_Rollback(t, outcome) ==
    /\ pc[t] = "ev_action"
    /\ nested[t] = "-"
    /\ act' = [act EXCEPT ![t] = ActionValue(outcome)]
    /\ pc' = [pc EXCEPT ![t] = "ev_return"]
    /\ state' = IF outcome = "Ok" THEN state ELSE from[t]
    /\ returned' = NoRet
    /\ UNCHANGED <<phase, machine_vars, adds, added, lock_vars, ev, tr, from, nested, calls,
                   ghost_vars>>

\* action() comes back with Ok or Err.
ActionReturn(t, outcome) ==
    /\ pc[t] = "ev_action"
    /\ nested[t] = "-"
    /\ act' = [act EXCEPT ![t] = ActionValue(outcome)]
    /\ pc' = [pc EXCEPT ![t] = "ev_return"]
    /\ returned' = NoRet
    /\ UNCHANGED <<phase, machine_vars, state, adds, added, lock_vars, ev, tr, from, nested, calls,
                   ghost_vars>>

\* action() panics: the thread unwinds out of event(), and dropping the write
\* guard while panicking poisons the lock.
ActionPanic(t) ==
    /\ pc[t] = "ev_action"
    /\ nested[t] = "-"
    /\ pc' = [pc EXCEPT ![t] = "panicked"]
    /\ EndEvent(t)
    /\ poisoned' = TRUE
    /\ writer' = None
    /\ seq_found' = FALSE
    /\ returned' = NoRet
    /\ UNCHANGED <<phase, machine_vars, state, adds, added, readers, calls, resolved,
                   invoked, seen, seq_state>>

\* The calls an action can make on the machine it belongs to.
NestedOps == {"event", "reset", "current_state"}

\* The action calls event(), reset() or current_state() on its own machine,
\* on the thread that is inside event() and holds the write guard.
NestedCall(t, op) ==
    /\ pc[t] = "ev_action"
    /\ nested[t] = "-"
    /\ nested' = [nested EXCEPT ![t] = op]
    /\ returned' = NoRet
    /\ UNCHANGED <<phase, machine_vars, state, adds, added, lock_vars, pc, ev, tr, from,
                   act, calls, ghost_vars>>

\* A lock that lets the thread holding the write guard in again.
NestedCanLock_Reentrant(t) == writer \in {None, t}

\* The nested call can take the lock it asks for.
NestedCanLock(t) ==
    IF nested[t] = "current_state" THEN CanRead ELSE CanWrite

\* The nested call's write() / read(). With the lock free the call runs to its
\* return and the action goes on. With the lock held the call waits, which is
\* no step at all; where the RwLock detects the deadlock it panics instead
\* ("rwlock write lock would result in deadlock"), and the thread unwinds out
\* of the action and of event(), whose guard poisons the lock as it drops.
NestedLock(t) ==
    /\ pc[t] = "ev_action"
    /\ nested[t] # "-"
    /\ IF NestedCanLock(t)
       THEN /\ nested' = [nested EXCEPT ![t] = "-"]
            /\ \E e \in Events :
                  state' = IF nested[t] = "reset" THEN initial_state
                           ELSE IF nested[t] = "event" THEN SeqEvent(events, state, e)
                           ELSE state
            /\ UNCHANGED <<pc, ev, tr, from, act, lock_vars, seq_found>>
       ELSE /\ pc' = [pc EXCEPT ![t] = "panicked"]
            /\ EndEvent(t)
            /\ poisoned' = TRUE
            /\ writer' = None
            /\ seq_found' = FALSE
            /\ UNCHANGED <<state, readers>>
    /\ returned' = NoRet
    /\ UNCHANGED <<phase, machine_vars, adds, added, calls, resolved, invoked, seen,
                   seq_state>>

\* An action's Err that is dropped instead of handed on.
EventResult_IgnoresAction(transition, action_result, e, s) ==
    IF transition = NoTr THEN NoTransitionErr(e, s) ELSE OkRes

\* The value of event()'s body: the Err of a failed lookup, Ok(()) when the
\* transition has no action, else what the action handed back.
EventResult(transition, action_result, e, s) ==
    IF transition = NoTr THEN NoTransitionErr(e, s)
    ELSE IF HasAction(transition) THEN action_result
    ELSE OkRes

\* A guard that is leaked when the lookup failed.
DropGuard_LeakedOnMiss(t) == IF tr[t] = NoTr THEN t ELSE None

\* The lock once the write guard has gone out of scope.
DropGuard(t) == None

\* event() returns its value; the guard is dropped on the way out.
EventReturn(t) ==
    /\ pc[t] = "ev_return"
    /\ returned' = Ret(t, EventResult(tr[t], act[t], ev[t], state))
    /\ writer' = DropGuard(t)
    /\ pc' = [pc EXCEPT ![t] = "idle"]
    /\ EndEvent(t)
    /\ seq_found' = FALSE
    /\ UNCHANGED <<phase, machine_vars, state, adds, added, readers, poisoned, calls,
                   resolved, invoked, seen, seq_state>>

\* A caller enters reset() and waits for the write lock.
ResetCall(t) ==
    /\ CanCall(t)
    /\ pc' = [pc EXCEPT ![t] = "rs_write"]
    /\ calls' = calls + 1
    /\ returned' = NoRet
    /\ UNCHANGED <<phase, machine_vars, state, adds, added, lock_vars, ev, tr, from, act, nested, ghost_vars>>

\* A write() in reset() that recovers the guard of a poisoned lock and goes on.
ResetAcquire_IgnoresPoison(t) ==
    /\ pc[t] = "rs_write"
    /\ CanWrite
    /\ pc' = [pc EXCEPT ![t] = "rs_store"]
    /\ writer' = t
    /\ seq_state' = initial_state
    /\ returned' = NoRet
    /\ UNCHANGED <<phase, machine_vars, state, adds, added, readers, poisoned, ev, tr,
                   from, act, nested, calls, resolved, invoked, seen, seq_found>>

\* self.state.write().expect(..): a poisoned lock panics the caller.
ResetAcquire(t) ==
    /\ pc[t] = "rs_write"
    /\ CanWrite
    /\ IF poisoned
       THEN /\ pc' = [pc EXCEPT ![t] = "panicked"]
            /\ UNCHANGED <<writer, seq_state>>
       ELSE /\ pc' = [pc EXCEPT ![t] = "rs_store"]
            /\ writer' = t
            /\ seq_state' = initial_state
    /\ returned' = NoRet
    /\ UNCHANGED <<phase, machine_vars, state, adds, added, readers, poisoned, ev, tr, from, act, nested,
                   calls, resolved, invoked, seen, seq_found>>

\* A reset that leaves the cell as it is.
ResetStore_KeepsState(t) ==
    /\ pc[t] = "rs_store"
    /\ writer' = None
    /\ pc' = [pc EXCEPT ![t] = "idle"]
    /\ returned' = Ret(t, UnitRes)
    /\ UNCHANGED <<phase, machine_vars, state, adds, added, readers, poisoned, ev, tr, from,
                   act, nested, calls, ghost_vars>>

\* A reset that calls the action of a transition into the initial state.
ResetStore_RunsEntryAction(t) ==
    /\ pc[t] = "rs_store"
    /\ state' = initial_state
    /\ seen' = Observe(initial_state)
    /\ invoked' = LET into == {p \in Pairs : /\ HasTransition(events, p[1], p[2])
                                             /\ new_state_of(events[p[1]][p[2]]) = initial_state
                                             /\ HasAction(events[p[1]][p[2]])}
                  IN  IF into = {} THEN invoked
                      ELSE [invoked EXCEPT ![CHOOSE p \in into : TRUE] = @ + 1]
    /\ writer' = None
    /\ pc' = [pc EXCEPT ![t] = "idle"]
    /\ returned' = Ret(t, UnitRes)
    /\ UNCHANGED <<phase, machine_vars, adds, added, readers, poisoned, ev, tr, from, act,
                   nested, calls, resolved, seq_state, seq_found>>

\* *state = self.initial_state.clone(); the guard is dropped on return.
ResetStore(t) ==
    /\ pc[t] = "rs_store"
    /\ state' = initial_state
    /\ seen' = Observe(initial_state)
    /\ writer' = None
    /\ pc' = [pc EXCEPT ![t] = "idle"]
    /\ returned' = Ret(t, UnitRes)
    /\ UNCHANGED <<phase, machine_vars, adds, added, readers, poisoned, ev, tr, from, act, nested, calls,
                   resolved, invoked, seq_state, seq_found>>

\* A caller enters current_state() and waits for a read lock.
CurrentStateCall(t) ==
    /\ CanCall(t)
    /\ pc' = [pc EXCEPT ![t] = "cs_read"]
    /\ seen' = [seen EXCEPT ![t] = {state}]
    /\ calls' = calls + 1
    /\ returned' = NoRet
    /\ UNCHANGED <<phase, machine_vars, state, adds, added, lock_vars, ev, tr, from, act, nested,
                   resolved, invoked, seq_state, seq_found>>

\* self.state.read().expect(..): a poisoned lock panics the caller.
CurrentStateAcquire(t) ==
    /\ pc[t] = "cs_read"
    /\ CanRead
    /\ IF poisoned
       THEN /\ pc' = [pc EXCEPT ![t] = "panicked"]
            /\ seen' = [seen EXCEPT ![t] = {}]
            /\ UNCHANGED readers
       ELSE /\ pc' = [pc EXCEPT ![t] = "cs_clone"]
            /\ readers' = readers \cup {t}
            /\ UNCHANGED seen
    /\ returned' = NoRet
    /\ UNCHANGED <<phase, machine_vars, state, adds, added, writer, poisoned, ev, tr, from, act, nested,
                   calls, resolved, invoked, seq_state, seq_found>>

\* .clone() of the cell; the read guard is dropped on return.
CurrentStateReturn(t) ==
    /\ pc[t] = "cs_clone"
    /\ returned' = Ret(t, StateRes(state))
    /\ readers' = readers \ {t}
    /\ pc' = [pc EXCEPT ![t] = "idle"]
    /\ seen' = [seen EXCEPT ![t] = {}]
    /\ UNCHANGED <<phase, machine_vars, state, adds, added, writer, poisoned, ev, tr, from, act, nested,
                   calls, resolved, invoked, seq_state, seq_found>>

Next ==
    \/ \E s \in States, e \in Events, n \in States, a \in ActionOpts : AddEvent(s, e, n, a)
    \/ Build
    \/ \E t \in Threads, e \in Events : EventCall(t, e)
    \/ \E t \in Threads : EventAcquire(t)
    \/ \E t \in Threads : EventLookup(t)
    \/ \E t \in Threads : EventCommit(t)
    \/ \E t \in Threads, o \in Outcomes : ActionReturn(t, o)
    \/ \E t \in Threads : ActionPanic(t)
    \/ \E t \in Threads, op \in NestedOps : NestedCall(t, op)
    \/ \E t \in Threads : NestedLock(t)
    \/ \E t \in Threads : EventReturn(t)
    \/ \E t \in Threads : ResetCall(t)
    \/ \E t \in Threads : ResetAcquire(t)
    \/ \E t \in Threads : ResetStore(t)
    \/ \E t \in Threads : CurrentStateCall(t)
    \/ \E t \in Threads : CurrentStateAcquire(t)
    \/ \E t \in Threads : CurrentStateReturn(t)

Spec == Init /\ [][Next]_vars

\* The steps of a call that thread t is inside: taking the lock once it is
\* free, the body of the call, the return of the action, the return of the
\* call.
Progress(t) ==
    \/ EventAcquire(t)
    \/ EventLookup(t)
    \/ EventCommit(t)
    \/ \E o \in Outcomes : ActionReturn(t, o)
    \/ EventReturn(t)
    \/ ResetAcquire(t)
    \/ ResetStore(t)
    \/ CurrentStateAcquire(t)
    \/ CurrentStateReturn(t)

\* The machine under a fair scheduler: a thread that can go on inside its
\* call does go on, and an action that can return does return.
FairSpec == Init /\ [][Next]_vars /\ \A t \in Threads : WF_vars(Progress(t))

(***************************************************************************)
(* Properties                                                              *)
(***************************************************************************)
\* The table holds an entry for (s, e).
TableHas(s, e) == s \in DOMAIN events /\ e \in DOMAIN events[s]

\* The steps of t's event() when the table has no entry for (state, event):
\* the lookup finds nothing, nothing is stored, no action is called, and the
\* call returns the no-transition error naming the event and the state.
C1_MissSteps(t) ==
    /\ (pc[t] = "ev_write" /\ ~TableHas(state, ev[t]) /\ pc'[t] # "ev_write")
         => (pc'[t] = "ev_lookup" /\ state' = state /\ invoked' = invoked)
    /\ (pc[t] = "ev_lookup" /\ ~TableHas(state, ev[t]) /\ pc'[t] # "ev_lookup")
         => (pc'[t] = "ev_return" /\ tr'[t] = NoTr /\ state' = state /\ invoked' = invoked)
    /\ (pc[t] = "ev_return" /\ tr[t] = NoTr /\ pc'[t] # "ev_return")
         => /\ pc'[t] = "idle"
            /\ returned'.thread = t
            /\ returned'.value.kind = "no transition found"
            /\ returned'.value.event = ev[t]
            /\ returned'.value.state = state
            /\ state' = state
            /\ invoked' = invoked

\* C1 as stated: for every machine and event e with no table entry for
\* (current state, e), dispatch(e) returns the no-transition error, leaves the
\* current state unchanged and invokes no action.
C1_Original == [][\A t \in Threads : C1_MissSteps(t)]_vars

\* C1 as amended: with an unpoisoned lock, a dispatch of e with no table entry
\* for (current state, e) returns the no-transition error naming e and the
\* state, leaves the current state unchanged and invokes no action.
C1_NoTransition == [][\A t \in Threads : ~poisoned => C1_MissSteps(t)]_vars

\* A dispatch has just returned no-transition from a state that has a table
\* entry, but none for the event.
C1_Witness ==
    /\ returned.value.kind = "no transition found"
    /\ returned.value.state = state
    /\ state \in DOMAIN events
    /\ returned.value.event \notin DOMAIN events[state]

\* The steps of t's event() when the table has an entry for (state, event):
\* the call goes on to the lookup (or, if it returns at once, the cell holds
\* the target), the entry is resolved, its target is stored, and the cell
\* holds the target from then on until the call has returned, whatever the
\* action hands back.
C2_HitSteps(t) ==
    /\ (pc[t] = "ev_write" /\ TableHas(state, ev[t]) /\ pc'[t] # "ev_write")
         => \/ pc'[t] = "ev_lookup" /\ state' = state
            \/ pc'[t] = "idle" /\ state' = events[state][ev[t]].new_state
    /\ (pc[t] = "ev_lookup" /\ TableHas(state, ev[t]) /\ pc'[t] # "ev_lookup")
         => (pc'[t] = "ev_commit" /\ tr'[t] = events[state][ev[t]] /\ state' = state)
    /\ (pc[t] = "ev_commit" /\ pc'[t] # "ev_commit")
         => (pc'[t] \in {"ev_action", "ev_return"} /\ state' = tr[t].new_state)
    /\ (pc[t] \in {"ev_action", "ev_return"} /\ tr[t] # NoTr)
         => (pc'[t] \in {"ev_action", "ev_return", "idle", "panicked"}
             /\ state' = tr[t].new_state)

\* C2 as stated: for every registered transition (s, e) -> (s', action), after
\* dispatch(e) is called in state s and returns, the current state is s',
\* whether the action succeeded, failed or was absent.
C2_Original == [][\A t \in Threads : C2_HitSteps(t)]_vars

\* C2 as amended: with an unpoisoned lock, for every registered transition
\* (s, e) -> (s', action), when dispatch(e) looks the table up in state s the
\* current state is s' when it returns, whether the action succeeded, failed
\* or was absent; an action failure never rolls the state back.
C2_TargetCommitted == [][\A t \in Threads : ~poisoned => C2_HitSteps(t)]_vars

\* A dispatch has just returned its action's failure and the machine has left
\* its initial state.
C2_Witness ==
    /\ returned.value.kind = "action failed"
    /\ state # initial_state
    /\ ~poisoned

\* C3: with an unpoisoned lock, dispatch(e) returns success exactly when a
\* transition exists for (current state, e) and its action is absent or
\* returned success; a failure of the action is returned as it is, and it is
\* not the no-transition error.
C3_ResultOfDispatch ==
    [][\A t \in Threads :
        /\ (pc[t] = "ev_write" /\ pc'[t] = "idle") => poisoned
        /\ (pc[t] = "ev_lookup" /\ pc'[t] # "ev_lookup")
             => (tr'[t] # NoTr <=> TableHas(state, ev[t]))
        /\ (pc[t] = "ev_action" /\ pc'[t] = "ev_return")
             => act'[t].kind \in {"Ok", "action failed"}
        /\ (pc[t] = "ev_return" /\ pc'[t] = "idle")
             => /\ returned'.thread = t
                /\ returned'.value.kind = "Ok"
                     <=> (tr[t] # NoTr /\ (tr[t].action = None \/ act[t].kind = "Ok"))
                /\ (tr[t] # NoTr /\ tr[t].action # None /\ act[t].kind # "Ok")
                     => (returned'.value = act[t]
                         /\ returned'.value.kind = "action failed")
      ]_vars

\* A dispatch whose action has handed back Ok is about to return.
C3_Witness ==
    \E t \in Threads :
        /\ pc[t] = "ev_return"
        /\ tr[t] # NoTr
        /\ tr[t].action # None
        /\ act[t].kind = "Ok"

\* C4: whenever reset() runs its store the current state becomes the initial
\* state and reset returns; with an unpoisoned lock reset never fails.
C4_ResetRestoresInitial ==
    [][\A t \in Threads :
        /\ (pc[t] = "rs_write" /\ pc'[t] # "rs_write" /\ ~poisoned)
             => pc'[t] = "rs_store"
        /\ (pc[t] = "rs_store" /\ pc'[t] # "rs_store")
             => /\ pc'[t] = "idle"
                /\ state' = initial_state
                /\ returned'.thread = t
                /\ returned'.value.kind = "Unit"
      ]_vars

\* reset() has just returned on a machine that a dispatch had moved out of its
\* initial state and that no transition leads back into it.
C4_Witness ==
    /\ returned.value.kind = "Unit"
    /\ state = initial_state
    /\ \E e \in Events : resolved[<<initial_state, e>>] > 0
    /\ \A s \in DOMAIN events : \A e \in DOMAIN events[s] :
           events[s][e].new_state # initial_state

\* The dispatches that have resolved the transition of p and not yet reached
\* the call of its action.
C5_BeforeAction(p) ==
    Cardinality({t \in Threads : pc[t] = "ev_commit" /\ <<from[t], ev[t]>> = p})

\* C5: the number of invocations of a transition's action equals the number of
\* dispatches that resolved the transition, however often it has fired; a
\* transition without an action invokes nothing.
C5_ActionEveryTime ==
    \A p \in Pairs :
        IF TableHas(p[1], p[2]) /\ events[p[1]][p[2]].action # None
        THEN invoked[p] = resolved[p] - C5_BeforeAction(p)
        ELSE invoked[p] = 0

\* The action of one transition has been invoked a second time.
C5_Witness == \E p \in Pairs : invoked[p] >= 2

\* C6: within one dispatch the target state is stored before the action runs:
\* when the action starts the cell holds the transition's target, no action has
\* been called before the store, and the cell still holds the target when the
\* action has handed back Ok or Err or has panicked.
C6_CommitBeforeAction ==
    [][\A t \in Threads :
        /\ pc'[t] = "ev_action" => state' = tr'[t].new_state
        /\ pc[t] = "ev_action" => state' = tr[t].new_state
        /\ (pc[t] = "ev_lookup" /\ pc'[t] = "ev_commit") => invoked' = invoked
      ]_vars

\* An action is running and the cell holds a target other than the state the
\* transition was resolved in.
C6_Witness ==
    \E t \in Threads :
        /\ pc[t] = "ev_action"
        /\ state = tr[t].new_state
        /\ state # from[t]

InWrite(t) == pc[t] \in {"ev_lookup", "ev_commit", "ev_action", "ev_return", "rs_store"}

\* C8: at most one dispatch or reset holds the lock, from before the lookup
\* until after the action has returned, and while it does no other thread is
\* reading or writing the cell.
C8_OneWriterAtATime ==
    \A t \in Threads :
        InWrite(t) =>
            /\ writer = t
            /\ readers = {}
            /\ \A u \in Threads \ {t} : ~InWrite(u) /\ pc[u] # "cs_clone"

\* An action is running while another thread's reset() waits for the lock.
C8_Witness ==
    \E t \in Threads : \E u \in Threads \ {t} :
        pc[t] = "ev_action" /\ pc[u] = "rs_write"

\* C9: when a dispatch has returned (success, action failure, no transition)
\* the lock is free: a waiting dispatch, reset or current_state can take it.
C9_LockReleasedOnReturn ==
    returned.value.kind \in {"Ok", "action failed", "no transition found"} =>
        /\ writer = None
        /\ readers = {}
        /\ \A u \in Threads :
            /\ pc[u] = "ev_write" => ENABLED EventAcquire(u)
            /\ pc[u] = "rs_write" => ENABLED ResetAcquire(u)
            /\ pc[u] = "cs_read" => ENABLED CurrentStateAcquire(u)

\* A dispatch has just returned no-transition while another dispatch waits for
\* the lock.
C9_Witness ==
    /\ returned.value.kind = "no transition found"
    /\ \E u \in Threads : pc[u] = "ev_write"

\* C10: every value current_state() returns is one the cell held between the
\* call and the return, and the dispatches and resets agree with a machine
\* that runs them one at a time in the order they took the lock: the cell is
\* that machine's whenever no writer holds the lock, and a dispatch finds a
\* transition exactly when that machine does.
C10_Linearizable ==
    [][/\ \A t \in Threads :
            /\ (pc[t] = "cs_clone" /\ pc'[t] = "idle")
                 => (returned'.thread = t /\ returned'.value.state \in seen[t])
            /\ (pc[t] = "ev_return" /\ pc'[t] = "idle")
                 => (returned'.value.kind = "no transition found" <=> ~seq_found)
            /\ (pc[t] = "ev_lookup" /\ pc'[t] # "ev_lookup")
                 => (pc'[t] = "ev_commit" <=> seq_found)
       /\ writer' = None => state' = seq_state'
      ]_vars

\* A current_state() call holds the read lock after the cell changed while it
\* was waiting.
C10_Witness ==
    \E t \in Threads : pc[t] = "cs_clone" /\ Cardinality(seen[t]) = 2

\* The steps of t's event() on a poisoned lock: write() gives Err, the call
\* is over at once with the lock error, and nothing was looked up, stored or
\* called.
C11_PoisonedSteps(t) ==
    (poisoned /\ pc[t] = "ev_write" /\ pc'[t] # "ev_write")
       => /\ pc'[t] = "idle"
          /\ returned'.thread = t
          /\ returned'.value.kind = "lock error"
          /\ returned'.value.kind \notin {"no transition found", "action failed"}
          /\ state' = state
          /\ resolved' = resolved
          /\ invoked' = invoked
          /\ tr' = tr

\* C11: once the lock is poisoned it stays poisoned; every event() that
\* reaches write() from then on fails with the lock error, which is neither
\* the no-transition error nor an action's failure, without a table lookup,
\* a change of the current state or a call of an action; and no event()
\* returns Ok(()) any more.
C11_PoisonedForGood ==
    [][/\ poisoned => poisoned'
       /\ \A t \in Threads : C11_PoisonedSteps(t)
       /\ poisoned => returned'.value.kind # "Ok"]_vars

\* An event() has come back with the lock error from a poisoned lock while
\* the table has an entry for the event in the current state.
C11_Witness ==
    /\ poisoned
    /\ returned.value.kind = "lock error"
    /\ \E e \in Events : TableHas(state, e)

\* The steps of t's reset() and current_state(): on a poisoned lock the
\* expect() panics out to the caller, nothing is handed back and the cell is
\* as it was; on any other lock the call goes on and returns its value.
C12_Steps(t) ==
    /\ (pc[t] = "rs_write" /\ pc'[t] # "rs_write")
         => IF poisoned
            THEN pc'[t] = "panicked" /\ state' = state /\ returned'.thread # t
            ELSE pc'[t] = "rs_store"
    /\ (pc[t] = "rs_store" /\ pc'[t] # "rs_store")
         => (pc'[t] = "idle" /\ returned'.thread = t /\ returned'.value.kind = "Unit")
    /\ (pc[t] = "cs_read" /\ pc'[t] # "cs_read")
         => IF poisoned
            THEN pc'[t] = "panicked" /\ state' = state /\ returned'.thread # t
            ELSE pc'[t] = "cs_clone"
    /\ (pc[t] = "cs_clone" /\ pc'[t] # "cs_clone")
         => (pc'[t] = "idle" /\ returned'.thread = t /\ returned'.value.kind = "State")

C13_AddsFor(s, e) == {i \in 1..Len(added) : added[i][1] = s /\ added[i][2] = e}

\* The largest member of a non-empty set of numbers.
C13_Last(S) == CHOOSE i \in S : \A j \in S : j <= i

\* The table holds, for every pair, exactly what the last add_event for the
\* pair gave, and nothing for a pair that was never added.
C13_TableIsLastAdds ==
    \A s \in States, e \in Events :
       IF C13_AddsFor(s, e) = {}
       THEN ~TableHas(s, e)
       ELSE /\ TableHas(s, e)
            /\ events[s][e].trigger = e
            /\ events[s][e].new_state = added[C13_Last(C13_AddsFor(s, e))][3]
            /\ events[s][e].action = added[C13_Last(C13_AddsFor(s, e))][4]

\* C13: add_event is last-write-wins. Whatever calls were made on the
\* builder, the table holds for each (old_state, event) the target and the
\* action of the last call for that pair and nothing of the earlier ones,
\* pairs that a call does not name keep their entries, the table changes
\* by these calls only, and build() hands it to the machine as it is.
C13_LastWriteWins ==
    /\ [](phase = "builder" => C13_TableIsLastAdds)
    /\ [][phase = "builder" => /\ events' # events => Len(added') = Len(added) + 1
                               /\ phase' = "machine" => events' = events]_vars

\* Two add_event calls named the same pair with different targets.
C13_Witness ==
    /\ phase = "builder"
    /\ \E i, j \in 1..Len(added) :
          /\ i < j
          /\ added[i][1] = added[j][1]
          /\ added[i][2] = added[j][2]
          /\ added[i][3] # added[j][3]

\* The table holds a cycle out of the initial state and back: e1 leads from
\* the initial state to b, and e2 leads from b to the initial state.
C14_Cycle(e1, b, e2) ==
    /\ b # initial_state
    /\ TableHas(initial_state, e1)
    /\ events[initial_state][e1].new_state = b
    /\ TableHas(b, e2)
    /\ events[b][e2].new_state = initial_state

\* Both transitions of such a cycle have been taken.
C14_RoundTripDone ==
    \E e1 \in Events, b \in States, e2 \in Events :
       /\ C14_Cycle(e1, b, e2)
       /\ resolved[<<initial_state, e1>>] > 0
       /\ resolved[<<b, e2>>] > 0

\* Where event(e) takes a machine that has just been built.
C14_FreshTarget(e) ==
    IF TableHas(initial_state, e) THEN events[initial_state][e].new_state
    ELSE initial_state

\* What event(e) hands back on a machine that has just been built, when the
\* action it calls, if any, hands back action_result.
C14_FreshKind(e, action_result) ==
    IF ~TableHas(initial_state, e) THEN "no transition found"
    ELSE IF events[initial_state][e].action = None THEN "Ok"
    ELSE action_result.kind

\* The steps of t's event() that close the cycle leave the machine in the
\* initial state.
C14_BackSteps(t) ==
    (/\ pc[t] \in {"ev_commit", "ev_return"}
     /\ pc'[t] # pc[t]
     /\ tr[t] # NoTr
     /\ from[t] # initial_state
     /\ tr[t].new_state = initial_state) => state' = initial_state

\* The steps of t's event() on a machine that is back in the initial state
\* after the round trip are the steps on a machine that has just been
\* built: the lock is taken, the table is looked up for (initial_state,
\* event), the target is stored, the action is called if the entry has one,
\* and the value handed back is that of the first dispatch of the event.
C14_FreshSteps(t) ==
    /\ (pc[t] = "ev_write" /\ pc'[t] # "ev_write" /\ state = initial_state /\ ~poisoned)
         => (pc'[t] = "ev_lookup" /\ state' = state)
    /\ (pc[t] = "ev_lookup" /\ pc'[t] # "ev_lookup" /\ state = initial_state)
         => IF TableHas(initial_state, ev[t])
            THEN pc'[t] = "ev_commit" /\ tr'[t] = events[initial_state][ev[t]]
            ELSE pc'[t] = "ev_return" /\ tr'[t] = NoTr
    /\ (pc[t] = "ev_commit" /\ pc'[t] # "ev_commit" /\ from[t] = initial_state)
         => /\ state' = C14_FreshTarget(ev[t])
            /\ IF events[initial_state][ev[t]].action # None
               THEN /\ pc'[t] = "ev_action"
                    /\ invoked'[<<initial_state, ev[t]>>]
                          = invoked[<<initial_state, ev[t]>>] + 1
               ELSE pc'[t] = "ev_return" /\ invoked' = invoked
    /\ (/\ pc[t] = "ev_return"
        /\ pc'[t] = "idle"
        /\ \/ from[t] = initial_state
           \/ tr[t] = NoTr /\ state = initial_state)
         => /\ returned'.thread = t
            /\ returned'.value.kind = C14_FreshKind(ev[t], act[t])
            /\ state' = C14_FreshTarget(ev[t])
            /\ writer' = None

\* C14: over a cycle A -> B on e1, B -> A on e2, the dispatch of e2 that
\* follows the dispatch of e1 leaves the current state at A, and from then
\* on the machine answers every event as a machine that has just been built
\* answers it: nothing of the round trip is kept but the current state.
C14_RoundTrip ==
    [][\A t \in Threads :
          /\ C14_BackSteps(t)
          /\ C14_RoundTripDone => C14_FreshSteps(t)]_vars

\* After a round trip the event that leaves the initial state is dispatched
\* a second time, and its action is being called a second time.
C14_Witness ==
    /\ C14_RoundTripDone
    /\ \E t \in Threads :
          /\ pc[t] = "ev_action"
          /\ from[t] = initial_state
          /\ state # initial_state
          /\ resolved[<<initial_state, ev[t]>>] = 2
          /\ invoked[<<initial_state, ev[t]>>] = 2

\* The states the construction named: the initial state and the targets of
\* the table's entries.
C15_Named ==
    {initial_state}
      \cup {events[p[1]][p[2]].new_state : p \in {q \in Pairs : TableHas(q[1], q[2])}}

\* C15: in every reachable state the current state is one the construction
\* named, the initial state or the target of a table entry; it is the
\* builder's initial state on the builder and on the built machine as long
\* as no event() has resolved a transition, and no action has been called
\* by then.
C15_StateIsNamed ==
    /\ state \in C15_Named
    /\ (phase = "builder" \/ resolved = ZeroCount)
         => (state = initial_state /\ invoked = ZeroCount)

\* An event() has returned and left the machine in a state other than the
\* initial one.
C15_Witness ==
    /\ phase = "machine"
    /\ state # initial_state
    /\ returned.value.kind \in {"Ok", "action failed"}

\* The step stores the initial state as the store of some thread's reset().
C16_IsReset ==
    \E t \in Threads :
       pc[t] = "rs_store" /\ pc'[t] = "idle" /\ state' = initial_state

\* The step stores the target of the entry that matches the current state
\* and the event some thread's event() was called with.
C16_IsTransition ==
    \E t \in Threads :
       /\ pc[t] = "ev_commit"
       /\ pc'[t] # "ev_commit"
       /\ TableHas(state, ev[t])
       /\ events[state][ev[t]].trigger = ev[t]
       /\ events[state][ev[t]].new_state = state'

\* C16: on the built machine the name, the initial state and the table never
\* change, whatever event(), reset() and current_state() do; the current
\* state changes only by a reset() to the initial state or by the step
\* s -> s' of an event(e) for which the table holds the entry (s, e) -> s';
\* and current_state() changes nothing of the machine.
C16_OnlyTheCellChanges ==
    [][phase = "machine"
         => /\ phase' = "machine"
            /\ name' = name
            /\ initial_state' = initial_state
            /\ events' = events
            /\ state' # state => (C16_IsReset \/ C16_IsTransition)
            /\ \A t \in Threads :
                  (pc[t] \in {"cs_read", "cs_clone"} /\ pc'[t] # pc[t])
                     => (state' = state /\ poisoned' = poisoned /\ writer' = writer)]_vars

\* An event() has stored a new state and is on its way out, and a
\* current_state() is waiting for it.
C16_Witness ==
    \E t, u \in Threads :
       /\ pc[t] = "ev_return"
       /\ tr[t] # NoTr
       /\ from[t] # state
       /\ pc[u] = "cs_read"

\* A step during which t's action keeps running: t still holds the write
\* lock after it, no call has returned by it, and every other thread that
\* waits for the lock still waits.
C17_WhileActionRuns(t) ==
    (pc[t] = "ev_action" /\ pc'[t] = "ev_action")
       => /\ writer = t
          /\ writer' = t
          /\ readers' = {}
          /\ returned'.thread = "-"
          /\ \A u \in Threads \ {t} :
                /\ pc[u] \in {"idle", "panicked", "ev_write", "rs_write", "cs_read"}
                /\ pc[u] \in {"ev_write", "rs_write", "cs_read"} => pc'[u] = pc[u]

\* C17: as long as an action has not come back, the event() that called it
\* holds the write lock and no event(), reset() or current_state() of
\* another thread gets the lock or returns; the lock is let go by nothing
\* but the end of that action, so an action that never returns stalls the
\* machine for good.
C17_ActionStallsMachine == [][\A t \in Threads : C17_WhileActionRuns(t)]_vars

\* An action is running and another thread's event() waits for the lock.
C17_Witness ==
    \E t \in Threads : \E u \in Threads \ {t} :
        pc[t] = "ev_action" /\ pc[u] = "ev_write"

\* The steps of t's reset(): no transition is resolved and no action is
\* called; the store leaves the initial state in the cell whatever it held,
\* and on a cell that holds the initial state already it changes nothing.
C18_ResetSteps(t) ==
    /\ (pc[t] \in {"rs_write", "rs_store"} /\ pc'[t] # pc[t])
         => (invoked' = invoked /\ resolved' = resolved /\ tr' = tr /\ act' = act)
    /\ (pc[t] = "rs_store" /\ pc'[t] = "idle")
         => /\ state' = initial_state
            /\ state = initial_state => (state' = state /\ poisoned' = poisoned)

\* C18: reset() calls no action, whatever the current state is and whatever
\* transitions lead into the initial state, and a reset() of a machine that
\* a reset() has just taken to the initial state leaves it as it is.
C18_ResetIsPlain == [][\A t \in Threads : C18_ResetSteps(t)]_vars

\* A reset() has just returned on a machine that had left the initial state;
\* the table holds a transition into the initial state with an action, and
\* that transition was never resolved and its action never called.
C18_Witness ==
    /\ returned.value.kind = "Unit"
    /\ state = initial_state
    /\ \E e \in Events :
          /\ TableHas(initial_state, e)
          /\ events[initial_state][e].new_state # initial_state
          /\ resolved[<<initial_state, e>>] > 0
    /\ \E s \in States \ {initial_state}, e \in Events :
          /\ TableHas(s, e)
          /\ events[s][e].new_state = initial_state
          /\ events[s][e].action # None
          /\ resolved[<<s, e>>] = 0
          /\ invoked[<<s, e>>] = 0

\* No thread is inside a call.
C19_Quiet == \A t \in Threads : pc[t] \in {"idle", "panicked"}

\* An action has panicked or is inside a call on its own machine.
C19_ActionWentWrong == poisoned \/ \E u \in Threads : nested[u] # "-"

\* C19: as long as every action returns and none panics, under a fair
\* scheduler the calls never block one another for good: again and again no
\* call is under way, so every event(), reset() and current_state() that was
\* called has returned; and the lock is free whenever no call is under way.
C19_EveryCallReturns ==
    /\ [](C19_Quiet => (writer = None /\ readers = {}))
    /\ []<>(C19_Quiet \/ C19_ActionWentWrong)

\* One thread's event() is on its way out with the lock while the other
\* thread's reset() waits for it, and no action has panicked.
C19_Witness ==
    /\ ~poisoned
    /\ \E t \in Threads : \E u \in Threads \ {t} :
          pc[t] = "ev_return" /\ pc[u] = "rs_write"

\* A step taken while t's action is inside a call on its own machine: t's
\* event() holds the write lock, so the nested call cannot have it; the
\* nested call hands nothing back and changes nothing, the action does not
\* go on, and the outer event() does not get to its return. The thread
\* stays where it is, or unwinds where the lock panics on the deadlock.
C20_NestedSteps(t) ==
    nested[t] # "-"
       => /\ pc[t] = "ev_action"
          /\ writer = t
          /\ pc'[t] \in {"ev_action", "panicked"}
          /\ pc'[t] = "ev_action" => (nested'[t] = nested[t] /\ writer' = t)
          /\ returned'.thread # t
          /\ state' = state
          /\ invoked' = invoked

\* C20: an action that calls event(), reset() or current_state() on its own
\* machine from inside event() never gets the lock, which its own thread
\* holds for writing: the nested call never returns normally and the outer
\* event() never returns.
C20_SelfDeadlock == [][\A t \in Threads : C20_NestedSteps(t)]_vars

\* An action is inside reset() on its own machine while another thread's
\* current_state() waits for the lock.
C20_Witness ==
    \E t \in Threads : \E u \in Threads \ {t} :
        /\ pc[t] = "ev_action"
        /\ nested[t] = "reset"
        /\ writer = t
        /\ pc[u] = "cs_read"
====
